---- MODULE Spec2Model ----
(***************************************************************************)
(* Page-replacement simulator (src/app.py): the three policy simulators    *)
(* fifo, lru and optimal, the snapshot helper _record_state, and the two   *)
(* request handlers simulate and compare that validate a request and call  *)
(* them.  One request is served at a time; every iteration of a policy's   *)
(* main loop is one step of the model.                                     *)
(***************************************************************************)
EXTENDS Integers, Sequences, FiniteSets, TLC

\* ------------------------------------------------------------------ bounds
MaxLen == 5        \* longest reference string of a request
MaxPage == 2       \* page identifiers are 0..MaxPage
MaxFrames == 3     \* largest num_frames of a request (the smallest is -1)
ParLen == 3        \* longest reference string of two calls served at once

\* ------------------------------------------------------- values of the code
None == -1         \* Python's None, the empty-slot filler of _record_state

Pages == 0..MaxPage
ReferenceStrings == UNION {[1..n -> Pages] : n \in 0..MaxLen}
FrameCounts == (-1)..MaxFrames
Algorithms == {"FIFO", "LRU", "Optimal", "MRU", ""}
Routes == {"simulate", "compare"}

VARIABLES
    route,          \* which handler serves the request
    pages,          \* data.get('sequence')
    frames_count,   \* data.get('num_frames')
    algo,           \* data.get('algorithm')
    pc,             \* "start", "fifo", "lru", "optimal" (inside that loop), "done"
    i,              \* number of pages of page_list the running loop has consumed
    frames,         \* current_frames / recently_used_stack / frames
    faults,         \* page_faults / faults
    hits,           \* page_hits / hits
    states,         \* frame_history / all_states / states_over_time
    log,            \* results_log / hit_miss_log / log
    fifo_faults,    \* compare's local of that name
    lru_faults,     \* compare's local of that name
    response,       \* what the handler returned
    repeated,       \* the request has been sent a second time
    prev_response,  \* the response to the first sending
    other,          \* the suspended call of a second thread (NoCall: there is none)
    preempted       \* the running call was suspended inside its loop at least once

vars == <<route, pages, frames_count, algo, pc, i, frames, faults, hits, states,
          log, fifo_faults, lru_faults, response, repeated, prev_response,
          other, preempted>>

request == <<route, pages, frames_count, algo>>
locals == <<i, frames, faults, hits, states, log>>
threads == <<other, preempted>>

\* no second call is being served
NoCall == <<>>

\* ------------------------------------------------------ Python list helpers
Range(s) == {s[k] : k \in 1..Len(s)}

\* list.index(x): the 0-based position of the first x (x is in the list)
list_index(list, x) ==
    (CHOOSE k \in 1..Len(list) : list[k] = x /\ \A m \in 1..(k - 1) : list[m] # x) - 1

\* list.remove(x): the list without its first x (x is in the list)
list_remove(list, x) ==
    LET k == list_index(list, x) + 1
    IN SubSeq(list, 1, k - 1) \o SubSeq(list, k + 1, Len(list))

\* list.pop(0) on a non-empty list: what is left
pop0(list) == Tail(list)

\* Python truthiness of the request fields
truthy_list(l) == l # <<>>
truthy_int(n) == n # 0
truthy_str(s) == s # ""

\* ------------------------------------------------------------ _record_state
\* (mutation) the padding loop tests <= and appends one None too many
_record_state_one_more(current_frames, max_frames) ==
    IF Len(current_frames) <= max_frames
    THEN current_frames \o [k \in 1..(max_frames + 1 - Len(current_frames)) |-> None]
    ELSE current_frames

\* a copy of the frames, None appended while it is shorter than max_frames
_record_state(current_frames, max_frames) ==
    IF Len(current_frames) < max_frames
    THEN current_frames \o [k \in 1..(max_frames - Len(current_frames)) |-> None]
    ELSE current_frames

\* --------------------------------------------------------------------- fifo
\* (mutation) a hit refreshes the page as lru does
fifo_hit_refresh(current_frames, page) ==
    Append(list_remove(current_frames, page), page)

\* a hit: the loop body touches no frame
fifo_hit(current_frames, page) == current_frames

\* a fault on a full, empty frame list (num_frames = 0): pop(0) raises IndexError
fifo_raises(current_frames, num_frames) ==
    Len(current_frames) = num_frames /\ current_frames = <<>>

\* (mutation) the fullness test is off by one: the last frame is never filled
fifo_fault_early(current_frames, page, num_frames) ==
    Append(IF Len(current_frames) >= num_frames - 1 /\ current_frames # <<>>
           THEN pop0(current_frames)
           ELSE current_frames, page)

\* (mutation) pop() for pop(0): the newest page is dropped, not the oldest
fifo_fault_pop_last(current_frames, page, num_frames) ==
    Append(IF Len(current_frames) = num_frames
           THEN SubSeq(current_frames, 1, Len(current_frames) - 1)
           ELSE current_frames, page)

\* a fault: drop index 0 when the list holds exactly num_frames pages, then append
fifo_fault(current_frames, page, num_frames) ==
    Append(IF Len(current_frames) = num_frames THEN pop0(current_frames)
           ELSE current_frames, page)

\* ---------------------------------------------------------------------- lru
\* (mutation) a hit leaves the stack as it is
lru_hit_noop(recently_used_stack, page) == recently_used_stack

\* (mutation) a hit removes the page and forgets to append it again
lru_hit_drop(recently_used_stack, page) == list_remove(recently_used_stack, page)

\* a hit: the page moves to the end of the stack
lru_hit(recently_used_stack, page) ==
    Append(list_remove(recently_used_stack, page), page)

lru_raises(recently_used_stack, num_frames) ==
    Len(recently_used_stack) = num_frames /\ recently_used_stack = <<>>

\* (mutation) pop() for pop(0): the most recently used page is dropped
lru_fault_pop_last(recently_used_stack, page, num_frames) ==
    Append(IF Len(recently_used_stack) = num_frames
           THEN SubSeq(recently_used_stack, 1, Len(recently_used_stack) - 1)
           ELSE recently_used_stack, page)

lru_fault(recently_used_stack, page, num_frames) ==
    Append(IF Len(recently_used_stack) = num_frames THEN pop0(recently_used_stack)
           ELSE recently_used_stack, page)

\* ------------------------------------------------------------------ optimal
\* page_list[i+1:] with i the 0-based index of the page being served; the model's
\* i counts the pages already consumed, so the page served is page_list[i + 1]
\* (1-based) and the future starts at i + 2.
future_of(page_list, n) == SubSeq(page_list, n + 2, Len(page_list))

\* (mutation) the break is missing: after a frame absent from the future the scan
\* goes on, and a later frame with a future use replaces it as the victim
RECURSIVE scan_frames_no_break(_, _, _, _, _)
scan_frames_no_break(fr, k, future_pages, victim_page, farthest_use_index) ==
    IF k > Len(fr) THEN victim_page
    ELSE LET f == fr[k] IN
         IF f \notin Range(future_pages)
         THEN scan_frames_no_break(fr, k + 1, future_pages, f, farthest_use_index)
         ELSE LET next_use == list_index(future_pages, f) IN
              IF next_use > farthest_use_index
              THEN scan_frames_no_break(fr, k + 1, future_pages, f, next_use)
              ELSE scan_frames_no_break(fr, k + 1, future_pages, victim_page,
                                        farthest_use_index)

\* (mutation) the comparison is turned round: the page used soonest is the victim
RECURSIVE scan_frames_soonest(_, _, _, _, _)
scan_frames_soonest(fr, k, future_pages, victim_page, farthest_use_index) ==
    IF k > Len(fr) THEN victim_page
    ELSE LET f == fr[k] IN
         IF f \notin Range(future_pages) THEN f
         ELSE LET next_use == list_index(future_pages, f) IN
              IF farthest_use_index = -1 \/ next_use < farthest_use_index
              THEN scan_frames_soonest(fr, k + 1, future_pages, f, next_use)
              ELSE scan_frames_soonest(fr, k + 1, future_pages, victim_page,
                                       farthest_use_index)

\* the scan "for f in frames" from position k on, with the victim and the farthest
\* index found so far; a frame absent from the future ends the scan at once
RECURSIVE scan_frames(_, _, _, _, _)
scan_frames(fr, k, future_pages, victim_page, farthest_use_index) ==
    IF k > Len(fr) THEN victim_page
    ELSE LET f == fr[k] IN
         IF f \notin Range(future_pages) THEN f
         ELSE LET next_use == list_index(future_pages, f) IN
              IF next_use > farthest_use_index
              THEN scan_frames(fr, k + 1, future_pages, f, next_use)
              ELSE scan_frames(fr, k + 1, future_pages, victim_page, farthest_use_index)

\* (mutation) farthest_use_index starts at 0: a page used next at index 0 is
\* never taken, and the scan can end with no victim
select_victim_from_zero(fr, future_pages) == scan_frames(fr, 1, future_pages, None, 0)

\* victim_page after the scan, started with victim None and farthest index -1
select_victim(fr, future_pages) == scan_frames(fr, 1, future_pages, None, -1)

\* frames.remove(victim_page) raises ValueError when the victim is not a frame
optimal_raises(fr, num_frames, future_pages) ==
    /\ ~(Len(fr) < num_frames)
    /\ select_victim(fr, future_pages) \notin Range(fr)

\* (mutation) the victim is chosen but never removed
optimal_fault_no_remove(fr, page, num_frames, future_pages) == Append(fr, page)

optimal_fault(fr, page, num_frames, future_pages) ==
    IF Len(fr) < num_frames
    THEN Append(fr, page)
    ELSE Append(list_remove(fr, select_victim(fr, future_pages)), page)

\* ---------------------------------------------------------------- responses
NoResponse == [status |-> 0, body |-> [error |-> ""]]
BadRequest(msg) == [status |-> 400, body |-> [error |-> msg]]
ServerError(exc) == [status |-> 500, body |-> [error |-> exc]]
Ok(b) == [status |-> 200, body |-> b]

\* (mutation) the two counters are returned under each other's key
result_of_swapped(f, h, st, lg) ==
    [faults |-> h, hits |-> f, states |-> st, results |-> lg]

\* the dictionary the three simulators return
result_of(f, h, st, lg) == [faults |-> f, hits |-> h, states |-> st, results |-> lg]

\* --------------------------------------------------------------------- Init
Init ==
    /\ route \in Routes
    /\ pages \in ReferenceStrings
    /\ frames_count \in FrameCounts
    /\ algo \in (IF route = "simulate" THEN Algorithms ELSE {""})
    /\ pc = "start"
    /\ i = 0
    /\ frames = <<>>
    /\ faults = 0
    /\ hits = 0
    /\ states = <<>>
    /\ log = <<>>
    /\ fifo_faults = None
    /\ lru_faults = None
    /\ response = NoResponse
    /\ repeated = FALSE
    /\ prev_response = NoResponse
    /\ other = NoCall
    /\ preempted = FALSE

\* ------------------------------------------- entering a simulator: its locals
\* (mutation) the frame list is shared by all calls and never emptied
call_fifo_shared ==
    /\ pc' = "fifo"
    /\ i' = 0
    /\ frames' = frames
    /\ faults' = 0
    /\ hits' = 0
    /\ states' = <<>>
    /\ log' = <<>>

call_fifo ==
    /\ pc' = "fifo"
    /\ i' = 0
    /\ frames' = <<>>
    /\ faults' = 0
    /\ hits' = 0
    /\ states' = <<>>
    /\ log' = <<>>

call_lru ==
    /\ pc' = "lru"
    /\ i' = 0
    /\ frames' = <<>>
    /\ faults' = 0
    /\ hits' = 0
    /\ states' = <<>>
    /\ log' = <<>>

call_optimal ==
    /\ pc' = "optimal"
    /\ i' = 0
    /\ frames' = <<>>
    /\ faults' = 0
    /\ hits' = 0
    /\ states' = <<>>
    /\ log' = <<>>

\* the handler returns r (or an exception leaves it and Flask answers r)
reply(r) ==
    /\ pc' = "done"
    /\ response' = r

\* ----------------------------------------------------------------- handlers
simulate ==
    /\ pc = "start"
    /\ route = "simulate"
    /\ UNCHANGED <<request, fifo_faults, lru_faults, repeated, prev_response, threads>>
    /\ IF ~(truthy_list(pages) /\ truthy_int(frames_count) /\ truthy_str(algo))
       THEN reply(BadRequest("Missing parameters")) /\ UNCHANGED locals
       ELSE IF algo = "FIFO" THEN call_fifo /\ UNCHANGED response
       ELSE IF algo = "LRU" THEN call_lru /\ UNCHANGED response
       ELSE IF algo = "Optimal" THEN call_optimal /\ UNCHANGED response
       ELSE reply(BadRequest("Invalid algorithm")) /\ UNCHANGED locals

compare ==
    /\ pc = "start"
    /\ route = "compare"
    /\ UNCHANGED <<request, repeated, prev_response, threads>>
    /\ IF ~truthy_list(pages) \/ ~truthy_int(frames_count)
       THEN /\ reply(BadRequest("Missing parameters"))
            /\ UNCHANGED <<locals, fifo_faults, lru_faults>>
       ELSE /\ call_fifo
            /\ fifo_faults' = None
            /\ lru_faults' = None
            /\ UNCHANGED response

\* ------------------------------------------------- one iteration of each loop
\* (mutation) a hit is logged but not counted
fifo_step_uncounted_hit ==
    /\ pc = "fifo"
    /\ i < Len(pages)
    /\ UNCHANGED <<request, fifo_faults, lru_faults, repeated, prev_response, threads>>
    /\ LET page == pages[i + 1] IN
       IF page \in Range(frames)
       THEN /\ log' = Append(log, "Hit")
            /\ frames' = frames
            /\ states' = Append(states, _record_state(frames', frames_count))
            /\ i' = i + 1
            /\ UNCHANGED <<hits, faults, pc, response>>
       ELSE /\ faults' = faults + 1
            /\ log' = Append(log, "Fault")
            /\ frames' = Append(IF Len(frames) = frames_count /\ frames # <<>>
                                THEN pop0(frames) ELSE frames, page)
            /\ states' = Append(states, _record_state(frames', frames_count))
            /\ i' = i + 1
            /\ UNCHANGED <<hits, pc, response>>

fifo_step ==
    /\ pc = "fifo"
    /\ i < Len(pages)
    /\ UNCHANGED <<request, fifo_faults, lru_faults, repeated, prev_response, threads>>
    /\ LET page == pages[i + 1] IN
       IF page \in Range(frames)
       THEN /\ hits' = hits + 1
            /\ log' = Append(log, "Hit")
            /\ frames' = fifo_hit(frames, page)
            /\ states' = Append(states, _record_state(frames', frames_count))
            /\ i' = i + 1
            /\ UNCHANGED <<faults, pc, response>>
       ELSE /\ faults' = faults + 1
            /\ log' = Append(log, "Fault")
            /\ IF fifo_raises(frames, frames_count)
               THEN /\ reply(ServerError("IndexError"))
                    /\ UNCHANGED <<i, frames, hits, states>>
               ELSE /\ frames' = fifo_fault(frames, page, frames_count)
                    /\ states' = Append(states, _record_state(frames', frames_count))
                    /\ i' = i + 1
                    /\ UNCHANGED <<hits, pc, response>>

\* (mutation) the state is recorded before the stack is changed
lru_step_snapshot_before ==
    /\ pc = "lru"
    /\ i < Len(pages)
    /\ UNCHANGED <<request, hits, fifo_faults, lru_faults, repeated, prev_response, threads>>
    /\ LET page == pages[i + 1] IN
       IF page \in Range(frames)
       THEN /\ log' = Append(log, "Hit")
            /\ states' = Append(states, _record_state(frames, frames_count))
            /\ frames' = lru_hit(frames, page)
            /\ i' = i + 1
            /\ UNCHANGED <<faults, pc, response>>
       ELSE /\ faults' = faults + 1
            /\ log' = Append(log, "Fault")
            /\ states' = Append(states, _record_state(frames, frames_count))
            /\ frames' = Append(IF Len(frames) = frames_count /\ frames # <<>>
                                THEN pop0(frames) ELSE frames, page)
            /\ i' = i + 1
            /\ UNCHANGED <<pc, response>>

lru_step ==
    /\ pc = "lru"
    /\ i < Len(pages)
    /\ UNCHANGED <<request, hits, fifo_faults, lru_faults, repeated, prev_response, threads>>
    /\ LET page == pages[i + 1] IN
       IF page \in Range(frames)
       THEN /\ log' = Append(log, "Hit")
            /\ frames' = lru_hit(frames, page)
            /\ states' = Append(states, _record_state(frames', frames_count))
            /\ i' = i + 1
            /\ UNCHANGED <<faults, pc, response>>
       ELSE /\ faults' = faults + 1
            /\ log' = Append(log, "Fault")
            /\ IF lru_raises(frames, frames_count)
               THEN /\ reply(ServerError("IndexError"))
                    /\ UNCHANGED <<i, frames, states>>
               ELSE /\ frames' = lru_fault(frames, page, frames_count)
                    /\ states' = Append(states, _record_state(frames', frames_count))
                    /\ i' = i + 1
                    /\ UNCHANGED <<pc, response>>

optimal_step ==
    /\ pc = "optimal"
    /\ i < Len(pages)
    /\ UNCHANGED <<request, fifo_faults, lru_faults, repeated, prev_response, threads>>
    /\ LET page == pages[i + 1]
           future_pages == future_of(pages, i)
       IN
       IF page \in Range(frames)
       THEN /\ hits' = hits + 1
            /\ log' = Append(log, "Hit")
            /\ states' = Append(states, _record_state(frames, frames_count))
            /\ i' = i + 1
            /\ UNCHANGED <<frames, faults, pc, response>>
       ELSE /\ faults' = faults + 1
            /\ log' = Append(log, "Fault")
            /\ IF optimal_raises(frames, frames_count, future_pages)
               THEN /\ reply(ServerError("ValueError"))
                    /\ UNCHANGED <<i, frames, hits, states>>
               ELSE /\ frames' = optimal_fault(frames, page, frames_count, future_pages)
                    /\ states' = Append(states, _record_state(frames', frames_count))
                    /\ i' = i + 1
                    /\ UNCHANGED <<hits, pc, response>>

\* ------------------------------------- the loop is over: the simulator returns
fifo_return ==
    /\ pc = "fifo"
    /\ i = Len(pages)
    /\ UNCHANGED <<request, lru_faults, repeated, prev_response, threads>>
    /\ IF route = "simulate"
       THEN /\ reply(Ok(result_of(faults, hits, states, log)))
            /\ UNCHANGED <<locals, fifo_faults>>
       ELSE /\ fifo_faults' = faults
            /\ call_lru
            /\ UNCHANGED response

lru_return ==
    /\ pc = "lru"
    /\ i = Len(pages)
    /\ UNCHANGED <<request, fifo_faults, repeated, prev_response, threads>>
    /\ IF route = "simulate"
       THEN /\ hits' = Len(pages) - faults
            /\ reply(Ok(result_of(faults, hits', states, log)))
            /\ UNCHANGED <<i, frames, faults, states, log, lru_faults>>
       ELSE /\ lru_faults' = faults
            /\ call_optimal
            /\ UNCHANGED response

\* (mutation) compare's response repeats fifo_faults under the key optimal_faults
optimal_return_copied_key ==
    /\ pc = "optimal"
    /\ i = Len(pages)
    /\ UNCHANGED <<request, locals, fifo_faults, lru_faults, repeated, prev_response, threads>>
    /\ IF route = "simulate"
       THEN reply(Ok(result_of(faults, hits, states, log)))
       ELSE reply(Ok([fifo_faults |-> fifo_faults, lru_faults |-> lru_faults,
                      optimal_faults |-> fifo_faults]))

optimal_return ==
    /\ pc = "optimal"
    /\ i = Len(pages)
    /\ UNCHANGED <<request, locals, fifo_faults, lru_faults, repeated, prev_response, threads>>
    /\ IF route = "simulate"
       THEN reply(Ok(result_of(faults, hits, states, log)))
       ELSE reply(Ok([fifo_faults |-> fifo_faults, lru_faults |-> lru_faults,
                      optimal_faults |-> faults]))

\* ------------------------------------------------ the client sends it again
\* The same request is posted a second time.  The locals of the finished call are
\* garbage by then; the model leaves their last values where they are, and the
\* simulator entered next binds them anew.
Repeat ==
    /\ pc = "done"
    /\ ~repeated
    /\ pc' = "start"
    /\ repeated' = TRUE
    /\ prev_response' = response
    /\ response' = NoResponse
    /\ UNCHANGED <<request, locals, fifo_faults, lru_faults, threads>>

Next ==
    \/ simulate
    \/ compare
    \/ fifo_step
    \/ lru_step
    \/ optimal_step
    \/ fifo_return
    \/ lru_return
    \/ optimal_return
    \/ Repeat

Spec == Init /\ [][Next]_vars

\* ------------------------------------------- the classic reference scenario
\* One request with the reference string 7 0 1 2 0 3 0 4 2 3 0 3 2 and four
\* frames, to either handler and with any algorithm name.
ScenarioInit ==
    /\ route \in Routes
    /\ pages = <<7, 0, 1, 2, 0, 3, 0, 4, 2, 3, 0, 3, 2>>
    /\ frames_count = 4
    /\ algo \in (IF route = "simulate" THEN Algorithms ELSE {""})
    /\ pc = "start"
    /\ i = 0
    /\ frames = <<>>
    /\ faults = 0
    /\ hits = 0
    /\ states = <<>>
    /\ log = <<>>
    /\ fifo_faults = None
    /\ lru_faults = None
    /\ response = NoResponse
    /\ repeated = FALSE
    /\ prev_response = NoResponse
    /\ other = NoCall
    /\ preempted = FALSE

SpecScenario == ScenarioInit /\ [][Next]_vars

\* ------------------------------------ a single simulation after a comparison
\* After compare has answered, the client posts the same sequence and num_frames
\* to /simulate with one of the three algorithms; the comparison's response is
\* kept in prev_response.
simulate_after_compare ==
    /\ pc = "done"
    /\ route = "compare"
    /\ response.status = 200
    /\ route' = "simulate"
    /\ algo' \in {"FIFO", "LRU", "Optimal"}
    /\ pc' = "start"
    /\ repeated' = TRUE
    /\ prev_response' = response
    /\ response' = NoResponse
    /\ UNCHANGED <<pages, frames_count, locals, fifo_faults, lru_faults, threads>>

NextCompare ==
    \/ Next
    \/ simulate_after_compare

SpecCompare == Init /\ [][NextCompare]_vars

\* ------------------------------------------------ two calls served at once
\* Each call has its own locals (they are bound in the function's frame), so a
\* second thread's call is a second copy of everything a call owns.  The model
\* keeps the running call in the variables and the suspended one in other; a
\* thread switch exchanges the two.
Context(mid) ==
    [route |-> route, pages |-> pages, frames_count |-> frames_count, algo |-> algo,
     pc |-> pc, i |-> i, frames |-> frames, faults |-> faults, hits |-> hits,
     states |-> states, log |-> log, fifo_faults |-> fifo_faults,
     lru_faults |-> lru_faults, response |-> response, repeated |-> repeated,
     prev_response |-> prev_response, preempted |-> mid]

\* the running call is between two iterations of its loop
MidLoop == pc \in {"fifo", "lru", "optimal"} /\ 0 < i /\ i < Len(pages)

\* A call first runs once undisturbed (its response is kept in prev_response by
\* Repeat); from then on the scheduler may suspend it at any step.
CanSwitch ==
    /\ other # NoCall
    /\ other.pc # "done"
    /\ repeated
    /\ other.repeated \/ pc = "start"

\* (mutation) the frame list is one module-level list that both calls use
Switch_shared_frames ==
    /\ CanSwitch
    /\ other' = Context(preempted \/ MidLoop)
    /\ route' = other.route
    /\ pages' = other.pages
    /\ frames_count' = other.frames_count
    /\ algo' = other.algo
    /\ pc' = other.pc
    /\ i' = other.i
    /\ frames' = frames
    /\ faults' = other.faults
    /\ hits' = other.hits
    /\ states' = other.states
    /\ log' = other.log
    /\ fifo_faults' = other.fifo_faults
    /\ lru_faults' = other.lru_faults
    /\ response' = other.response
    /\ repeated' = other.repeated
    /\ prev_response' = other.prev_response
    /\ preempted' = other.preempted

Switch ==
    /\ CanSwitch
    /\ other' = Context(preempted \/ MidLoop)
    /\ route' = other.route
    /\ pages' = other.pages
    /\ frames_count' = other.frames_count
    /\ algo' = other.algo
    /\ pc' = other.pc
    /\ i' = other.i
    /\ frames' = other.frames
    /\ faults' = other.faults
    /\ hits' = other.hits
    /\ states' = other.states
    /\ log' = other.log
    /\ fifo_faults' = other.fifo_faults
    /\ lru_faults' = other.lru_faults
    /\ response' = other.response
    /\ repeated' = other.repeated
    /\ prev_response' = other.prev_response
    /\ preempted' = other.preempted

\* the requests of two simulations served at once
ParStrings == UNION {[1..n -> 0..1] : n \in 1..ParLen}
ParRequests ==
    [route : {"simulate"}, pages : ParStrings, frames_count : 1..2,
     algo : {"FIFO", "LRU", "Optimal"}]

\* a call that has not begun
NewCall(r) ==
    [route |-> r.route, pages |-> r.pages, frames_count |-> r.frames_count,
     algo |-> r.algo, pc |-> "start", i |-> 0, frames |-> <<>>, faults |-> 0,
     hits |-> 0, states |-> <<>>, log |-> <<>>, fifo_faults |-> None,
     lru_faults |-> None, response |-> NoResponse, repeated |-> FALSE,
     prev_response |-> NoResponse, preempted |-> FALSE]

ParInit ==
    /\ \E r \in ParRequests :
          /\ route = r.route
          /\ pages = r.pages
          /\ frames_count = r.frames_count
          /\ algo = r.algo
    /\ pc = "start"
    /\ i = 0
    /\ frames = <<>>
    /\ faults = 0
    /\ hits = 0
    /\ states = <<>>
    /\ log = <<>>
    /\ fifo_faults = None
    /\ lru_faults = None
    /\ response = NoResponse
    /\ repeated = FALSE
    /\ prev_response = NoResponse
    /\ other \in {NewCall(r) : r \in ParRequests}
    /\ preempted = FALSE

NextPar ==
    \/ simulate
    \/ fifo_step
    \/ lru_step
    \/ optimal_step
    \/ fifo_return
    \/ lru_return
    \/ optimal_return
    \/ Repeat
    \/ Switch

SpecPar == ParInit /\ [][NextPar]_vars

\* ========================================================================
\* Properties
\* ========================================================================
Running == pc \in {"fifo", "lru", "optimal"}
Policies == {"FIFO", "LRU", "Optimal"}

\* the occupied slots of a snapshot, in order
Occupied(st) == SelectSeq(st, LAMBDA x : x # None)
Full(st) == None \notin Range(st)
\* the pages among the first n references
Seen(n) == {pages[j] : j \in 1..n}
\* reference j is the first one to its page
FirstUse(j) == \A m \in 1..(j - 1) : pages[m] # pages[j]

\* ------------------------------------------------------------------------
\* C1: for the same reference string and capacity K >= 1, the fault count of
\* optimal is at most that of fifo and at most that of lru (read off the three
\* counts compare returns for one request).
OptimalLowerBound ==
    (pc = "done" /\ route = "compare" /\ response.status = 200 /\ frames_count >= 1)
        => /\ response.body.optimal_faults <= response.body.fifo_faults
           /\ response.body.optimal_faults <= response.body.lru_faults

\* a comparison in which optimal beats both fifo and lru
OptimalStrictlyBetter ==
    /\ pc = "done" /\ route = "compare" /\ response.status = 200 /\ frames_count >= 1
    /\ response.body.optimal_faults < response.body.fifo_faults
    /\ response.body.optimal_faults < response.body.lru_faults

\* ------------------------------------------------------------------------
\* C2: simulate answers InvalidInput (status 400, no result) whenever the
\* reference string is empty, the capacity is <= 0, or the policy is not one of
\* FIFO, LRU, Optimal.
SimulateRejectsInvalidInput ==
    (pc = "done" /\ route = "simulate"
        /\ (pages = <<>> \/ frames_count <= 0 \/ algo \notin Policies))
        => response.status = 400

\* ------------------------------------------------------------------------
\* C3: compare, given an empty reference string or a capacity <= 0, starts none
\* of the three simulations and answers InvalidInput (status 400).
CompareRejectsInvalidInput ==
    (route = "compare" /\ (pages = <<>> \/ frames_count <= 0))
        => /\ pc \in {"start", "done"}
           /\ pc = "done" => response.status = 400

\* ------------------------------------------------------------------------
\* C4: for every policy, every non-empty reference string of length N and every
\* K >= 1, the result has faults + hits = N, N frame states and N log entries.
ResultCounts ==
    (pc = "done" /\ route = "simulate" /\ response.status = 200 /\ frames_count >= 1)
        => /\ response.body.faults + response.body.hits = Len(pages)
           /\ Len(response.body.states) = Len(pages)
           /\ Len(response.body.results) = Len(pages)

\* a returned FIFO result that has both hits and faults
ResultWithHitsAndFaults ==
    /\ pc = "done" /\ route = "simulate" /\ response.status = 200 /\ frames_count >= 1
    /\ algo = "FIFO"
    /\ response.body.hits > 0
    /\ response.body.faults > 1

\* ------------------------------------------------------------------------
\* C5: for every policy and K >= 1, every recorded frame state has exactly K
\* slots, the resident pages first and only None to their right; the newest
\* snapshot holds exactly the resident pages, in frame order.
FrameStateShape ==
    (Running /\ frames_count >= 1)
        => /\ \A j \in 1..Len(states) :
                /\ Len(states[j]) = frames_count
                /\ \A a \in 1..frames_count : \A b \in a..frames_count :
                       states[j][a] = None => states[j][b] = None
           /\ Len(states) > 0 => Occupied(states[Len(states)]) = frames

\* a run that has recorded a padded snapshot and, later, a full one
PaddedThenFullSnapshot ==
    /\ Running /\ frames_count >= 2
    /\ \E j \in 1..Len(states) : \E m \in (j + 1)..Len(states) :
          /\ states[j][frames_count] = None /\ states[j][1] # None
          /\ Full(states[m])

\* ------------------------------------------------------------------------
\* C6: under FIFO a hit leaves the frames and their order as they were, and the
\* fault that follows a hit on a full frame set evicts the page that headed the
\* frame order before the hit.
FifoHitKeepsOrder ==
    (pc = "fifo" /\ frames_count >= 1)
        => \A j \in 2..Len(states) :
              log[j] = "Hit"
                  => /\ states[j] = states[j - 1]
                     /\ (j < Len(states) /\ log[j + 1] = "Fault" /\ Full(states[j - 1]))
                           => states[j + 1] = Tail(states[j - 1]) \o <<pages[j + 1]>>

\* a hit on the head of a full FIFO frame set, followed by a fault
FifoHitThenEviction ==
    /\ pc = "fifo" /\ frames_count >= 2
    /\ \E j \in 2..(Len(states) - 1) :
          /\ log[j] = "Hit" /\ log[j + 1] = "Fault"
          /\ Full(states[j - 1])
          /\ states[j - 1][1] = pages[j]
          /\ pages[j] \notin Range(states[j + 1])

\* ------------------------------------------------------------------------
\* C7: under LRU with K >= 2 a hit keeps the set of resident pages, puts the
\* referenced page in the last occupied slot, and that page survives the next
\* step when it is a fault.
LruHitRefreshes ==
    (pc = "lru" /\ frames_count >= 2)
        => \A j \in 2..Len(states) :
              log[j] = "Hit"
                  => /\ Range(states[j]) = Range(states[j - 1])
                     /\ Occupied(states[j])[Len(Occupied(states[j]))] = pages[j]
                     /\ (j < Len(states) /\ log[j + 1] = "Fault")
                           => pages[j] \in Range(states[j + 1])

\* a hit on the oldest-inserted page of a full LRU frame set, then an eviction
\* that spares it
LruHitThenEviction ==
    /\ pc = "lru" /\ frames_count >= 2
    /\ \E j \in 2..(Len(states) - 1) :
          /\ log[j] = "Hit" /\ log[j + 1] = "Fault"
          /\ Full(states[j - 1])
          /\ states[j - 1][1] = pages[j]
          /\ pages[j] \in Range(states[j + 1])
          /\ Range(states[j + 1]) # Range(states[j])

\* ------------------------------------------------------------------------
\* C8: a second run of the same policy on the same reference string and capacity
\* returns the same response as the first (faults, hits, log and frame states).
SameRequestSameResult ==
    (pc = "done" /\ route = "simulate" /\ repeated) => response = prev_response

\* a second run that returned a result with an eviction in it
SecondRunReturned ==
    /\ pc = "done" /\ route = "simulate" /\ repeated
    /\ response.status = 200
    /\ frames_count >= 1
    /\ response.body.faults > frames_count
    /\ response.body.hits > 0

\* ------------------------------------------------------------------------
\* C9: for every policy, when K is at least the number of distinct pages of the
\* reference string, a reference faults exactly when it is the first to its
\* page, the fault count is the number of distinct pages seen, and every page
\* seen stays resident.
NoEvictionWhenAllFit ==
    (Running /\ frames_count >= Cardinality(Range(pages)))
        => /\ \A j \in 1..i : (log[j] = "Fault") <=> FirstUse(j)
           /\ faults = Cardinality(Seen(i))
           /\ Range(frames) = Seen(i)
           /\ \A j \in 1..i : Seen(j) \subseteq Range(states[j])

\* a finished loop over a string with repeated pages that all fit
AllFitRunFinished ==
    /\ Running /\ i = Len(pages)
    /\ frames_count = Cardinality(Range(pages))
    /\ frames_count >= 2
    /\ Len(pages) > frames_count

\* ------------------------------------------------------------------------
\* C10: with K = 1, under each policy step j is a Fault exactly when j = 1 or
\* page j differs from page j - 1; so the three fault counts compare returns are
\* equal.
Transition(j) == j = 1 \/ pages[j] # pages[j - 1]

CapacityOneFaults ==
    /\ (Running /\ frames_count = 1)
          => /\ Len(log) = i
             /\ \A j \in 1..i : (log[j] = "Fault") <=> Transition(j)
             /\ faults = Cardinality({j \in 1..i : Transition(j)})
    /\ (pc = "done" /\ route = "compare" /\ response.status = 200 /\ frames_count = 1)
          => /\ response.body.fifo_faults = response.body.lru_faults
             /\ response.body.lru_faults = response.body.optimal_faults

\* a capacity-1 comparison over a string with both a repeat and a change of page
CapacityOneCompared ==
    /\ pc = "done" /\ route = "compare" /\ response.status = 200 /\ frames_count = 1
    /\ \E j \in 2..Len(pages) : pages[j] = pages[j - 1]
    /\ \E j \in 2..Len(pages) : pages[j] # pages[j - 1]

\* ------------------------------------------------------------------------
\* C11: for the reference string 7 0 1 2 0 3 0 4 2 3 0 3 2 and capacity 4,
\* optimal returns 6 faults, and fifo and lru return at least 6 each.
ClassicScenarioFaults ==
    /\ (pc = "done" /\ route = "simulate" /\ algo \in Policies)
          => /\ response.status = 200
             /\ algo = "Optimal" => response.body.faults = 6
             /\ response.body.faults >= 6
    /\ (pc = "done" /\ route = "compare")
          => /\ response.status = 200
             /\ response.body.optimal_faults = 6
             /\ response.body.fifo_faults >= 6
             /\ response.body.lru_faults >= 6

\* the comparison of the classic scenario has returned
ClassicScenarioCompared ==
    /\ pc = "done" /\ route = "compare"
    /\ pages = <<7, 0, 1, 2, 0, 3, 0, 4, 2, 3, 0, 3, 2>> /\ frames_count = 4
    /\ response.status = 200
    /\ response.body.optimal_faults = 6

\* ------------------------------------------------------------------------
\* C12: for valid input compare returns exactly three fault counts, keyed
\* fifo_faults, lru_faults and optimal_faults, and each equals the faults value
\* a single simulation of that policy returns for the same reference string and
\* capacity.
ComparedWith == "fifo_faults" \in DOMAIN prev_response.body

CompareMatchesSimulate ==
    /\ (pc = "done" /\ route = "compare" /\ frames_count >= 1 /\ pages # <<>>)
          => /\ response.status = 200
             /\ DOMAIN response.body = {"fifo_faults", "lru_faults", "optimal_faults"}
    /\ (pc = "done" /\ route = "simulate" /\ ComparedWith /\ frames_count >= 1)
          => /\ response.status = 200
             /\ algo = "FIFO" => response.body.faults = prev_response.body.fifo_faults
             /\ algo = "LRU" => response.body.faults = prev_response.body.lru_faults
             /\ algo = "Optimal"
                   => response.body.faults = prev_response.body.optimal_faults

\* a single Optimal simulation has returned after a comparison in which optimal
\* had fewer faults than fifo and than lru
SimulatedAfterCompare ==
    /\ pc = "done" /\ route = "simulate" /\ ComparedWith /\ frames_count >= 1
    /\ algo = "Optimal"
    /\ response.status = 200
    /\ prev_response.body.optimal_faults < prev_response.body.lru_faults
    /\ prev_response.body.optimal_faults < prev_response.body.fifo_faults

\* ------------------------------------------------------------------------
\* C13: simulation calls share no mutable state: a call whose steps are
\* interleaved in any way with those of another call returns the response it
\* returned when it ran alone.
InterleavedCallSameResult ==
    (other # NoCall /\ pc = "done" /\ repeated) => response = prev_response

\* both calls were suspended inside their loops, both have returned, and the
\* one that returned last had a hit and an eviction
BothPreemptedBothDone ==
    /\ other # NoCall
    /\ pc = "done" /\ repeated /\ preempted
    /\ other.pc = "done" /\ other.repeated /\ other.preempted
    /\ response.status = 200
    /\ response.body.faults > frames_count
    /\ response.body.hits > 0

\* ------------------------------------------------------------------------
\* helpers of the properties below
Smaller(a, b) == IF a < b THEN a ELSE b
Count(lg, v) == Cardinality({j \in 1..Len(lg) : lg[j] = v})
NoDuplicates(st) == \A a \in 1..Len(st) : \A b \in 1..Len(st) : st[a] = st[b] => a = b
LastOccupied(st) == Occupied(st)[Len(Occupied(st))]
Without(st, v) == SelectSeq(st, LAMBDA x : x # v)
\* the pages not yet processed after reference j
Suffix(j) == SubSeq(pages, j + 1, Len(pages))
\* the position of the first p in fut (p occurs in fut)
FirstPos(fut, p) == CHOOSE k \in 1..Len(fut) : fut[k] = p /\ \A m \in 1..(k - 1) : fut[m] # p
\* the latest reference to p among the first j
LastRef(p, j) == CHOOSE m \in 1..j : pages[m] = p /\ \A n \in (m + 1)..j : pages[n] # p
\* the latest fault on p among the first j references: when p was admitted
Admitted(p, j) ==
    CHOOSE m \in 1..j : /\ pages[m] = p /\ log[m] = "Fault"
                        /\ \A n \in (m + 1)..j : ~(pages[n] = p /\ log[n] = "Fault")

\* ------------------------------------------------------------------------
\* C14: under Optimal a fault on a full frame set evicts the first resident page,
\* in frame order, that does not occur in the not-yet-processed suffix; when every
\* resident page occurs there, it evicts the one whose next occurrence is
\* farthest.  The new page is appended at the tail.
BeladyVictim(prev, fut) ==
    LET never == {k \in 1..Len(prev) : prev[k] \notin Range(fut)} IN
    IF never # {}
    THEN prev[CHOOSE k \in never : \A m \in never : k <= m]
    ELSE CHOOSE p \in Range(prev) :
             \A q \in Range(prev) : FirstPos(fut, q) <= FirstPos(fut, p)

OptimalEvictsFarthest ==
    (pc = "optimal" /\ frames_count >= 1)
        => \A j \in 2..Len(states) :
              (log[j] = "Fault" /\ Full(states[j - 1]))
                  => states[j] = Without(states[j - 1],
                                         BeladyVictim(states[j - 1], Suffix(j)))
                                 \o <<pages[j]>>

\* one run with an eviction of the farthest-used page that was not the head, and
\* an eviction of a page never used again
BothKindsOfVictim ==
    /\ pc = "optimal" /\ frames_count >= 2
    /\ \E j \in 2..Len(states) :
          /\ log[j] = "Fault" /\ Full(states[j - 1])
          /\ Range(states[j - 1]) \subseteq Range(Suffix(j))
          /\ states[j][1] = states[j - 1][1]
    /\ \E j \in 2..Len(states) :
          /\ log[j] = "Fault" /\ Full(states[j - 1])
          /\ ~(Range(states[j - 1]) \subseteq Range(Suffix(j)))

\* ------------------------------------------------------------------------
\* C15: under Optimal with K >= 1, whenever a fault meets a full frame set the
\* victim selected is a resident page, also on the last reference, so the removal
\* never fails and the call returns a result.
OptimalVictimResident ==
    /\ (pc = "optimal" /\ frames_count >= 1 /\ i < Len(pages)
           /\ pages[i + 1] \notin Range(frames) /\ Len(frames) >= frames_count)
          => select_victim(frames, future_of(pages, i)) \in Range(frames)
    /\ (pc = "done" /\ frames_count >= 1 /\ pages # <<>>
           /\ (route = "compare" \/ algo = "Optimal"))
          => response.status = 200

\* an eviction made on the last reference, where nothing is left to look ahead to
EvictionOnLastReference ==
    /\ pc = "optimal" /\ frames_count >= 2
    /\ i = Len(pages) /\ i >= 2
    /\ log[i] = "Fault"
    /\ Full(states[i - 1])
    /\ Len(states) = i

\* ------------------------------------------------------------------------
\* C16: under FIFO a fault on a full frame set evicts the head of the frame
\* order, which is the resident page admitted earliest whatever hits it had
\* since, and appends the new page; a fault with a free frame evicts nothing.
FifoEvictsEarliestAdmitted ==
    (pc = "fifo" /\ frames_count >= 1)
        => \A j \in 2..Len(states) :
              log[j] = "Fault"
                  => IF Full(states[j - 1])
                     THEN /\ states[j] = Tail(states[j - 1]) \o <<pages[j]>>
                          /\ \A q \in Range(states[j - 1]) :
                                Admitted(states[j - 1][1], j - 1) <= Admitted(q, j - 1)
                     ELSE Occupied(states[j]) = Occupied(states[j - 1]) \o <<pages[j]>>

\* a fault that found a free frame, and later the eviction of a page that was
\* hit after another page had been admitted
FifoEvictedDespiteHit ==
    /\ pc = "fifo" /\ frames_count >= 2
    /\ \E j \in 2..Len(states) : log[j] = "Fault" /\ ~Full(states[j - 1])
    /\ \E j \in 3..Len(states) : \E h \in 2..(j - 1) :
          /\ log[j] = "Fault" /\ Full(states[j - 1])
          /\ log[h] = "Hit" /\ pages[h] = states[j - 1][1]
          /\ pages[h] \notin Range(states[j])

\* ------------------------------------------------------------------------
\* C17: under LRU the frame order is always the order of last reference, least
\* recent first, and a fault on a full frame set evicts the resident page whose
\* last reference is the oldest.
LruOrderIsRecency ==
    (pc = "lru" /\ frames_count >= 1)
        => /\ \A j \in 1..Len(states) :
                LET occ == Occupied(states[j]) IN
                \A a \in 1..Len(occ) : \A b \in (a + 1)..Len(occ) :
                    LastRef(occ[a], j) < LastRef(occ[b], j)
           /\ \A j \in 2..Len(states) :
                (log[j] = "Fault" /\ Full(states[j - 1]))
                    => LET gone == Range(states[j - 1]) \ Range(states[j]) IN
                       /\ Cardinality(gone) = 1
                       /\ \A v \in gone : \A q \in Range(states[j - 1]) :
                              LastRef(v, j - 1) <= LastRef(q, j - 1)

\* an LRU eviction of a page that was not the earliest admitted
LruEvictedLaterAdmitted ==
    /\ pc = "lru" /\ frames_count >= 2
    /\ \E j \in 3..Len(states) :
          /\ log[j] = "Fault" /\ Full(states[j - 1])
          /\ \E v \in Range(states[j - 1]) \ Range(states[j]) :
                \E q \in Range(states[j]) \cap Range(states[j - 1]) :
                    Admitted(q, j - 1) < Admitted(v, j - 1)

\* ------------------------------------------------------------------------
\* C18: for every policy step j is a Hit exactly when its page is in the snapshot
\* of step j - 1, and a Fault otherwise; step 1 is a Fault; and the faults and
\* hits returned are the numbers of Fault and Hit entries of the log.
HitIffResident ==
    /\ (Running /\ frames_count >= 1)
          => /\ \A j \in 1..Len(states) :
                  /\ log[j] \in {"Hit", "Fault"}
                  /\ (log[j] = "Hit") <=> (j > 1 /\ pages[j] \in Range(states[j - 1]))
             /\ faults = Count(log, "Fault")
             /\ pc # "lru" => hits = Count(log, "Hit")
    /\ (pc = "done" /\ route = "simulate" /\ response.status = 200 /\ frames_count >= 1)
          => /\ response.body.faults = Count(response.body.results, "Fault")
             /\ response.body.hits = Count(response.body.results, "Hit")

\* an LRU result returned with more hits than faults
MoreHitsThanFaults ==
    /\ pc = "done" /\ route = "simulate" /\ algo = "LRU" /\ frames_count >= 1
    /\ response.status = 200
    /\ response.body.hits > response.body.faults
    /\ response.body.faults > 1

\* ------------------------------------------------------------------------
\* C19: for every policy and K >= 1 the snapshot of step j is taken after the
\* step's change: it holds the page referenced at step j; after a fault that
\* page is in the last occupied slot, and under LRU after a hit as well.
SnapshotAfterStep ==
    (Running /\ frames_count >= 1)
        => \A j \in 1..Len(states) :
              /\ pages[j] \in Range(states[j])
              /\ log[j] = "Fault" => LastOccupied(states[j]) = pages[j]
              /\ pc = "lru" => LastOccupied(states[j]) = pages[j]

\* an LRU hit on a page that was not in the last slot, and a later eviction
LruSnapshotShowsReorder ==
    /\ pc = "lru" /\ frames_count >= 2
    /\ \E j \in 2..Len(states) :
          /\ log[j] = "Hit"
          /\ LastOccupied(states[j - 1]) # pages[j]
    /\ \E j \in 2..Len(states) : log[j] = "Fault" /\ Full(states[j - 1])

\* ------------------------------------------------------------------------
\* C20: for every policy and K >= 1, after every step the resident pages have no
\* duplicates and their number is min(K, distinct pages referenced so far); so
\* the number of occupied slots never decreases and a full frame set stays full.
ResidentCount ==
    (Running /\ frames_count >= 1)
        => /\ NoDuplicates(frames)
           /\ Len(frames) = Smaller(frames_count, Cardinality(Seen(i)))
           /\ \A j \in 1..Len(states) :
                /\ NoDuplicates(Occupied(states[j]))
                /\ Len(Occupied(states[j]))
                      = Smaller(frames_count, Cardinality(Seen(j)))
                /\ j > 1 => Len(Occupied(states[j])) >= Len(Occupied(states[j - 1]))
                /\ (j > 1 /\ Full(states[j - 1])) => Full(states[j])

\* an Optimal run that filled its frames and then made two evictions
FullAndStillFull ==
    /\ pc = "optimal" /\ frames_count >= 2
    /\ Len(frames) = frames_count
    /\ Cardinality({j \in 2..Len(states) : log[j] = "Fault" /\ Full(states[j - 1])}) >= 2

====
